---- MODULE Spec2Model ----
(***************************************************************************)
(* Remote directory synchronizer: ReplicatorSource and ReplicatorTarget of *)
(* remote_file_replicator.py over two in-memory directory trees.           *)
(*                                                                         *)
(* A path is held as the sequence of its components below the replication  *)
(* root (the root is <<>>); a component and a file content are sequences   *)
(* of characters, so that string prefix, substring and '/'-joining are     *)
(* computed as the code computes them.  A request carries the '/'-joined   *)
(* string, which the target splits again.                                  *)
(***************************************************************************)
EXTENDS Integers, Sequences, FiniteSets, TLC

VARIABLES src, tgt, watched, pc, trace, lastOp, prev, strict, lastReq, reply, writes, repeated,
          stack, events

vars == <<src, tgt, watched, pc, trace, lastOp, prev, strict, lastReq, reply, writes, repeated,
          stack, events>>

(***************************************************************************)
(* Bounds                                                                  *)
(***************************************************************************)
MaxDepth == 2
MaxSrcNodes == 2
MaxTgtNodes == 2

(***************************************************************************)
(* Names, contents, paths                                                  *)
(***************************************************************************)
NameOrder == << <<"a">>, <<"a", "b">> >>

Names == {NameOrder[i] : i \in 1..Len(NameOrder)}

Contents == { <<"x">>, <<"a", "/", "a">> }

None == <<"None">>

Paths == UNION {[1..k -> Names] : k \in 0..MaxDepth}

RelPaths == Paths \ {<<>>}

Root == <<>>

\* str.startswith on character sequences
startswith(s, p) == Len(p) <= Len(s) /\ SubSeq(s, 1, Len(p)) = p

\* the `in` operator of two strings: sub occurs in s
contains(s, sub) ==
    \E i \in 0..Len(s) : i + Len(sub) <= Len(s) /\ SubSeq(s, i + 1, i + Len(sub)) = sub

RECURSIVE JoinStr(_)
\* the '/'-joined string of a non-empty component sequence
JoinStr(p) ==
    IF Len(p) = 1 THEN p[1] ELSE p[1] \o <<"/">> \o JoinStr(Tail(p))

\* posixpath.relpath(path, self._dir_path)
relpath(p) == IF p = Root THEN <<".">> ELSE JoinStr(p)

\* the absolute path string of a source path: dir_path, then the components
abspath(p) == IF p = Root THEN <<"/", "s">> ELSE <<"/", "s", "/">> \o JoinStr(p)

RECURSIVE SplitStr(_, _)
\* the components of a '/'-separated string; cur is the component being read
SplitStr(s, cur) ==
    IF s = <<>> THEN <<cur>>
    ELSE IF Head(s) = "/" THEN <<cur>> \o SplitStr(Tail(s), <<>>)
    ELSE SplitStr(Tail(s), Append(cur, Head(s)))

\* posixpath.join(self._dir_path, req.path), as components below the root
full_path(s) == SplitStr(s, <<>>)

\* posixpath.join(src_dir, item)
join(dir, item) == Append(dir, item)

PathStrs == {JoinStr(p) : p \in RelPaths}

(***************************************************************************)
(* The FileSystem capability: a tree as a function from paths to nodes      *)
(***************************************************************************)
NONE == [data |-> <<>>, kind |-> "none"]
DIR == [data |-> <<>>, kind |-> "dir"]
File(c) == [data |-> c, kind |-> "file"]

EmptyTree == [p \in Paths |-> IF p = Root THEN DIR ELSE NONE]

Parent(p) == SubSeq(p, 1, Len(p) - 1)

IsPrefix(q, p) == Len(q) <= Len(p) /\ SubSeq(p, 1, Len(q)) = q

exists(fs, p) == p \in Paths /\ fs[p].kind # "none"

isdir(fs, p) == p \in Paths /\ fs[p].kind = "dir"

readfile(fs, p) == fs[p].data

listdir(fs, p) == SelectSeq(NameOrder, LAMBDA n : exists(fs, join(p, n)))

\* some proper ancestor of p is a regular file, or p lies outside the modelled depth
Blocked(fs, p) ==
    \/ p \notin Paths
    \/ \E k \in 0..(Len(p) - 1) : fs[SubSeq(p, 1, k)].kind = "file"

fs_makedirs(fs, p) ==
    IF Blocked(fs, p) \/ fs[p].kind = "file"
    THEN [fs |-> fs, ok |-> FALSE]
    ELSE [fs |-> [q \in Paths |-> IF IsPrefix(q, p) THEN DIR ELSE fs[q]], ok |-> TRUE]

fs_writefile(fs, p, c) ==
    IF Blocked(fs, p) \/ fs[p].kind = "dir"
    THEN [fs |-> fs, ok |-> FALSE]
    ELSE [fs |-> [q \in Paths |-> IF q = p THEN File(c)
                                  ELSE IF IsPrefix(q, p) THEN DIR ELSE fs[q]],
          ok |-> TRUE]

fs_removedir(fs, p) == [q \in Paths |-> IF IsPrefix(p, q) THEN NONE ELSE fs[q]]

fs_removefile(fs, p) == [q \in Paths |-> IF q = p THEN NONE ELSE fs[q]]

Nodes(fs) == {p \in RelPaths : fs[p].kind # "none"}

WellFormed(fs) ==
    /\ fs[Root] = DIR
    /\ \A p \in Nodes(fs) : fs[Parent(p)].kind = "dir"

\* the trees obtained from those of T by adding one entry
Grow(T) ==
    T \cup {[t EXCEPT ![p] = v] : t \in T, p \in RelPaths, v \in {DIR} \cup {File(c) : c \in Contents}}

RECURSIVE TreesUpTo(_)
TreesUpTo(n) ==
    IF n = 0 THEN {EmptyTree}
    ELSE {t \in Grow(TreesUpTo(n - 1)) : WellFormed(t) /\ Cardinality(Nodes(t)) <= n}

SrcTrees == TreesUpTo(MaxSrcNodes)

TgtTrees == TreesUpTo(MaxTgtNodes)

(***************************************************************************)
(* ReplicatorTarget                                                        *)
(***************************************************************************)
Request(command, path, data) == [command |-> command, data |-> data, path |-> path]

\* handle_request returns None for every command but get_dir_structure
NoReply == [data |-> <<>>, status |-> "none"]

\* the call ended with an exception of the filesystem
Raised == [data |-> <<>>, status |-> "raised"]

\* a dictionary or a string as one object: map is used when isdict, str otherwise
Dict(m) == [isdict |-> TRUE, map |-> m, str |-> <<>>]
Str(c) == [isdict |-> FALSE, map |-> <<>>, str |-> c]

RECURSIVE get_dir_structure(_, _)
get_dir_structure(fs, path) ==
    Dict([item \in {n \in Names : exists(fs, join(path, n))} |->
            IF isdir(fs, join(path, item))
            THEN get_dir_structure(fs, join(path, item))
            ELSE Str(readfile(fs, join(path, item)))])

\* the result of one request: the tree, the value returned, the number of
\* fs.writefile calls made, and whether every filesystem operation was accepted
Res(f, r, w, ok) == [fs |-> f, ok |-> ok, reply |-> r, writes |-> w]

\* case 'makedir'
case_makedir(fs, fp) ==
    LET m == fs_makedirs(fs, fp) IN Res(m.fs, NoReply, 0, m.ok)

\* case 'writefile', with the directory at full_path left in place
case_writefile_keep_dir(fs, fp, data) ==
    IF data = None THEN Res(fs, NoReply, 0, TRUE)
    ELSE IF exists(fs, fp) /\ ~isdir(fs, fp) /\ readfile(fs, fp) = data
         THEN Res(fs, NoReply, 0, TRUE)
         ELSE LET w == fs_writefile(fs, fp, data) IN Res(w.fs, NoReply, 1, w.ok)

\* case 'writefile', without the comparison with the current content
case_writefile_always(fs, fp, data) ==
    IF data = None THEN Res(fs, NoReply, 0, TRUE)
    ELSE LET f1 == IF exists(fs, fp) /\ isdir(fs, fp) THEN fs_removedir(fs, fp) ELSE fs
             w == fs_writefile(f1, fp, data)
         IN  Res(w.fs, NoReply, 1, w.ok)

\* case 'writefile', returning once the directory at full_path is removed
case_writefile_return_early(fs, fp, data) ==
    IF data = None THEN Res(fs, NoReply, 0, TRUE)
    ELSE IF exists(fs, fp) /\ isdir(fs, fp)
         THEN Res(fs_removedir(fs, fp), NoReply, 0, TRUE)
         ELSE IF exists(fs, fp) /\ readfile(fs, fp) = data
              THEN Res(fs, NoReply, 0, TRUE)
              ELSE LET w == fs_writefile(fs, fp, data) IN Res(w.fs, NoReply, 1, w.ok)

\* case 'writefile'
case_writefile(fs, fp, data) ==
    IF data = None THEN Res(fs, NoReply, 0, TRUE)
    ELSE IF exists(fs, fp) /\ ~isdir(fs, fp) /\ readfile(fs, fp) = data
         THEN Res(fs, NoReply, 0, TRUE)
         ELSE LET f1 == IF exists(fs, fp) /\ isdir(fs, fp)
                        THEN fs_removedir(fs, fp) ELSE fs
                  w == fs_writefile(f1, fp, data)
              IN  Res(w.fs, NoReply, 1, w.ok)

\* case 'remove', a directory removed with every path its string is a prefix of
case_remove_by_string_prefix(fs, fp) ==
    IF exists(fs, fp)
    THEN IF isdir(fs, fp)
         THEN Res([q \in Paths |-> IF q # Root /\ startswith(JoinStr(q), JoinStr(fp))
                                   THEN NONE ELSE fs[q]], NoReply, 0, TRUE)
         ELSE Res(fs_removefile(fs, fp), NoReply, 0, TRUE)
    ELSE Res(fs, NoReply, 0, TRUE)

\* case 'remove'
case_remove(fs, fp) ==
    IF exists(fs, fp)
    THEN IF isdir(fs, fp)
         THEN Res(fs_removedir(fs, fp), NoReply, 0, TRUE)
         ELSE Res(fs_removefile(fs, fp), NoReply, 0, TRUE)
    ELSE Res(fs, NoReply, 0, TRUE)

\* handle_request, the snapshot taken at the request's path
handle_request_snapshot_at_path(fs, req) ==
    CASE req.command = "makedir" -> case_makedir(fs, full_path(req.path))
      [] req.command = "writefile" -> case_writefile(fs, full_path(req.path), req.data)
      [] req.command = "remove" -> case_remove(fs, full_path(req.path))
      [] req.command = "get_dir_structure" ->
           Res(fs, [data |-> get_dir_structure(fs, IF req.path = <<>> THEN Root
                                                   ELSE full_path(req.path)),
                    status |-> "ok"], 0, TRUE)
      [] OTHER -> Res(fs, NoReply, 0, TRUE)

handle_request(fs, req) ==
    CASE req.command = "makedir" -> case_makedir(fs, full_path(req.path))
      [] req.command = "writefile" -> case_writefile(fs, full_path(req.path), req.data)
      [] req.command = "remove" -> case_remove(fs, full_path(req.path))
      [] req.command = "get_dir_structure" ->
           Res(fs, [data |-> get_dir_structure(fs, Root), status |-> "ok"], 0, TRUE)
      [] OTHER -> Res(fs, NoReply, 0, TRUE)

(***************************************************************************)
(* ReplicatorSource.  An operation threads a record st through its steps:  *)
(* the target tree (requests are applied synchronously), the calls made so *)
(* far, _watched_dirs, the target's fs.writefile calls, and ok, which is   *)
(* FALSE once an exception has been raised: the rest is then skipped.      *)
(***************************************************************************)
EmptyDict == Dict([n \in {} |-> NONE])

Start(t, w) == [ok |-> TRUE, tgt |-> t, trace |-> <<>>, watched |-> w, writes |-> 0]

\* self._rpc_handle(request): the target applies the request before the call
\* returns; a refused filesystem operation raises when the filesystem is strict
rpc_handle(st, req) ==
    IF ~st.ok THEN st
    ELSE LET r == handle_request(st.tgt, req)
         IN  [st EXCEPT !.tgt = r.fs,
                        !.trace = Append(@, req),
                        !.writes = @ + r.writes,
                        !.ok = r.ok \/ ~strict]

Raise(st) == [st EXCEPT !.ok = FALSE]

\* relative_path not in target_dir_structure
not_in(relative_path, tds) ==
    IF tds.isdict THEN relative_path \notin DOMAIN tds.map
    ELSE ~contains(tds.str, relative_path)

\* target_dir_structure[relative_path] != content, for a dictionary
differs(relative_path, tds, content) ==
    LET v == tds.map[relative_path] IN v.isdict \/ v.str # content

RECURSIVE sync_target_with_source(_, _, _, _)
RECURSIVE sync_items(_, _, _, _, _)
sync_items(st, sfs, src_dir, tds, items) ==
    IF items = <<>> \/ ~st.ok THEN st
    ELSE LET item == Head(items)
             src_path == join(src_dir, item)
             relative_path == relpath(src_path)
             st1 == IF isdir(sfs, src_path)
                    THEN LET s1 == IF not_in(relative_path, tds)
                                   THEN rpc_handle(rpc_handle(st,
                                            Request("remove", relative_path, None)),
                                            Request("makedir", relative_path, None))
                                   ELSE st
                         IN  IF ~s1.ok THEN s1
                             ELSE IF ~tds.isdict THEN Raise(s1)
                             ELSE sync_target_with_source(s1, sfs, src_path,
                                      IF relative_path \in DOMAIN tds.map
                                      THEN tds.map[relative_path] ELSE EmptyDict)
                    ELSE LET content == readfile(sfs, src_path)
                         IN  IF not_in(relative_path, tds)
                             THEN rpc_handle(st, Request("writefile", relative_path, content))
                             ELSE IF ~tds.isdict THEN Raise(st)
                             ELSE IF differs(relative_path, tds, content)
                             THEN rpc_handle(st, Request("writefile", relative_path, content))
                             ELSE st
         IN  sync_items(st1, sfs, src_dir, tds, Tail(items))

sync_target_with_source(st, sfs, src_dir, tds) ==
    sync_items(st, sfs, src_dir, tds, listdir(sfs, src_dir))

RECURSIVE remove_excess_items(_, _, _, _)
RECURSIVE excess_items(_, _, _, _, _)
RECURSIVE excess_items_descend(_, _, _, _, _)
\* excess_items, descending into a subdirectory that it has just removed too
excess_items_descend(st, sfs, src_dir, tds, items) ==
    IF items = <<>> \/ ~st.ok THEN st
    ELSE LET relative_path == Head(items)
             content == tds.map[relative_path]
             fullp == join(src_dir, relative_path)
             st1 == IF ~exists(sfs, fullp)
                    THEN rpc_handle(st, Request("remove", relpath(fullp), None))
                    ELSE st
             st2 == IF content.isdict
                    THEN remove_excess_items(st1, sfs, fullp, content)
                    ELSE st1
         IN  excess_items_descend(st2, sfs, src_dir, tds, Tail(items))

excess_items(st, sfs, src_dir, tds, items) ==
    IF items = <<>> \/ ~st.ok THEN st
    ELSE LET relative_path == Head(items)
             content == tds.map[relative_path]
             fullp == join(src_dir, relative_path)
             st1 == IF ~exists(sfs, fullp)
                    THEN rpc_handle(st, Request("remove", relpath(fullp), None))
                    ELSE IF content.isdict
                    THEN remove_excess_items(st, sfs, fullp, content)
                    ELSE st
         IN  excess_items(st1, sfs, src_dir, tds, Tail(items))

remove_excess_items(st, sfs, src_dir, tds) ==
    excess_items(st, sfs, src_dir, tds,
                 SelectSeq(NameOrder, LAMBDA n : n \in DOMAIN tds.map))

initialize_target(st, sfs) ==
    LET response == handle_request(st.tgt, Request("get_dir_structure", <<>>, None)).reply
        s0 == [st EXCEPT !.trace = Append(@, Request("get_dir_structure", <<>>, None))]
    IN  remove_excess_items(sync_target_with_source(s0, sfs, Root, response.data),
                            sfs, Root, response.data)

\* self._fs.watchdir(src_dir, self.handle_event), the directory not recorded
watch_unrecorded(st, src_dir) ==
    IF ~st.ok THEN st
    ELSE [st EXCEPT !.trace = Append(@, Request("watchdir", abspath(src_dir), None))]

\* self._fs.watchdir(src_dir, self.handle_event); self._watched_dirs.add(src_dir)
watch(st, src_dir) ==
    IF ~st.ok THEN st
    ELSE [st EXCEPT !.trace = Append(@, Request("watchdir", abspath(src_dir), None)),
                    !.watched = @ \cup {src_dir}]

RECURSIVE sync_and_watch_directories(_, _, _)
RECURSIVE watch_items(_, _, _, _)
watch_items(st, sfs, src_dir, items) ==
    IF items = <<>> \/ ~st.ok THEN st
    ELSE LET src_path == join(src_dir, Head(items))
             relative_path == relpath(src_path)
             st1 == IF isdir(sfs, src_path)
                    THEN sync_and_watch_directories(
                             rpc_handle(st, Request("makedir", relative_path, None)),
                             sfs, src_path)
                    ELSE rpc_handle(st, Request("writefile", relative_path,
                                                readfile(sfs, src_path)))
         IN  watch_items(st1, sfs, src_dir, Tail(items))

sync_and_watch_directories(st, sfs, src_dir) ==
    LET s1 == watch(st, src_dir)
        s2 == IF relpath(src_dir) # <<".">>
              THEN rpc_handle(s1, Request("makedir", relpath(src_dir), None))
              ELSE s1
    IN  watch_items(s2, sfs, src_dir, listdir(sfs, src_dir))

RECURSIVE unwatch_all(_, _)
unwatch_all(st, to_unwatch) ==
    IF to_unwatch = {} THEN st
    ELSE LET d == CHOOSE x \in to_unwatch : TRUE
         IN  unwatch_all([st EXCEPT !.trace = Append(@, Request("unwatchdir", abspath(d), None)),
                                    !.watched = @ \ {d}],
                         to_unwatch \ {d})

\* unwatching the removed directory alone
unwatch_removed_directory(st, prefix_path) ==
    unwatch_all(st, {d \in st.watched : d = prefix_path})

unwatch_prefix_directories(st, prefix_path) ==
    unwatch_all(st, {d \in st.watched : startswith(abspath(d), abspath(prefix_path))})

Event(type, path) == [path |-> path, type |-> type]

\* handle_event, the makedir of an added directory sent before its population too
handle_event_makedir_twice(st, sfs, event) ==
    LET relative_path == relpath(event.path)
    IN  CASE event.type = "ADDED" ->
               IF isdir(sfs, event.path)
               THEN rpc_handle(sync_and_watch_directories(
                                   rpc_handle(st, Request("makedir", relative_path, None)),
                                   sfs, event.path),
                               Request("makedir", relative_path, None))
               ELSE rpc_handle(st, Request("writefile", relative_path,
                                           readfile(sfs, event.path)))
          [] event.type = "REMOVED" ->
               rpc_handle(unwatch_prefix_directories(st, event.path),
                          Request("remove", relative_path, None))
          [] event.type = "MODIFIED" ->
               rpc_handle(st, Request("writefile", relative_path,
                                      readfile(sfs, event.path)))

\* handle_event, an added directory created at the target but not populated
handle_event_makedir_only(st, sfs, event) ==
    LET relative_path == relpath(event.path)
    IN  CASE event.type = "ADDED" ->
               IF isdir(sfs, event.path)
               THEN rpc_handle(st, Request("makedir", relative_path, None))
               ELSE rpc_handle(st, Request("writefile", relative_path,
                                           readfile(sfs, event.path)))
          [] event.type = "REMOVED" ->
               rpc_handle(unwatch_prefix_directories(st, event.path),
                          Request("remove", relative_path, None))
          [] event.type = "MODIFIED" ->
               rpc_handle(st, Request("writefile", relative_path,
                                      readfile(sfs, event.path)))

handle_event(st, sfs, event) ==
    LET relative_path == relpath(event.path)
    IN  CASE event.type = "ADDED" ->
               IF isdir(sfs, event.path)
               THEN rpc_handle(sync_and_watch_directories(st, sfs, event.path),
                               Request("makedir", relative_path, None))
               ELSE rpc_handle(st, Request("writefile", relative_path,
                                           readfile(sfs, event.path)))
          [] event.type = "REMOVED" ->
               rpc_handle(unwatch_prefix_directories(st, event.path),
                          Request("remove", relative_path, None))
          [] event.type = "MODIFIED" ->
               rpc_handle(st, Request("writefile", relative_path,
                                      readfile(sfs, event.path)))

(***************************************************************************)
(* The replication system: construction of ReplicatorSource in its two     *)
(* calls, then changes of the source tree, each notified to handle_event   *)
(* when the directory it happens in is watched.                            *)
(***************************************************************************)
NoReq == Request("none", <<>>, None)

Op(kind, path, notified) == [kind |-> kind, notified |-> notified, path |-> path]

Init ==
    /\ src \in SrcTrees
    /\ tgt \in TgtTrees
    /\ strict \in BOOLEAN
    /\ watched = {}
    /\ pc = "start"
    /\ trace = <<>>
    /\ lastOp = Op("none", Root, FALSE)
    /\ prev = [src |-> src, tgt |-> tgt, watched |-> {}]
    /\ lastReq = NoReq
    /\ reply = NoReply
    /\ writes = 0
    /\ repeated = FALSE
    /\ stack = <<>>
    /\ events = <<>>

\* the state an operation leaves: st is the record it ended with
Finish(st, op, next_pc) ==
    /\ tgt' = st.tgt
    /\ watched' = st.watched
    /\ trace' = st.trace
    /\ writes' = st.writes
    /\ lastOp' = op
    /\ prev' = [src |-> src, tgt |-> tgt, watched |-> watched]
    /\ pc' = IF st.ok THEN next_pc ELSE "aborted"
    /\ UNCHANGED <<strict, lastReq, reply, repeated, stack, events>>

InitializeTarget ==
    /\ pc \in {"start", "initialized"}
    /\ Finish(initialize_target(Start(tgt, watched), src), Op("initialize_target", Root, FALSE),
              "initialized")
    /\ UNCHANGED src

Populate ==
    /\ pc = "initialized"
    /\ Finish(sync_and_watch_directories(Start(tgt, watched), src, Root),
              Op("sync_and_watch_directories", Root, FALSE), "watching")
    /\ UNCHANGED src

\* a change of the source tree to sfs, seen at path p as an event of the given type
Change(sfs, type, p) ==
    /\ pc = "watching"
    /\ Cardinality(Nodes(sfs)) <= MaxSrcNodes
    /\ src' = sfs
    /\ IF Parent(p) \in watched
       THEN Finish(handle_event(Start(tgt, watched), sfs, Event(type, p)),
                   Op(type, p, TRUE), "watching")
       ELSE Finish(Start(tgt, watched), Op(type, p, FALSE), "watching")

FileAdded(p, c) ==
    /\ ~exists(src, p)
    /\ isdir(src, Parent(p))
    /\ Change(fs_writefile(src, p, c).fs, "ADDED", p)

\* the topmost directory that makedirs(p) creates
Topmost(fs, p) ==
    SubSeq(p, 1, CHOOSE k \in 1..Len(p) :
                    /\ ~exists(fs, SubSeq(p, 1, k))
                    /\ \A j \in 1..(k - 1) : exists(fs, SubSeq(p, 1, j)))

DirAdded(p) ==
    /\ ~exists(src, p)
    /\ fs_makedirs(src, p).ok
    /\ Change(fs_makedirs(src, p).fs, "ADDED", Topmost(src, p))

Removed(p) ==
    /\ exists(src, p)
    /\ Change(IF isdir(src, p) THEN fs_removedir(src, p) ELSE fs_removefile(src, p),
              "REMOVED", p)

Modified(p, c) ==
    /\ exists(src, p)
    /\ ~isdir(src, p)
    /\ readfile(src, p) # c
    /\ Change(fs_writefile(src, p, c).fs, "MODIFIED", p)

Next ==
    \/ InitializeTarget
    \/ Populate
    \/ \E p \in RelPaths, c \in Contents : FileAdded(p, c)
    \/ \E p \in RelPaths : DirAdded(p)
    \/ \E p \in RelPaths : Removed(p)
    \/ \E p \in RelPaths, c \in Contents : Modified(p, c)

Spec == Init /\ [][Next]_vars

(***************************************************************************)
(* The target alone, serving requests of any client                        *)
(***************************************************************************)
InitTarget ==
    /\ tgt \in TgtTrees
    /\ strict \in BOOLEAN
    /\ src = EmptyTree
    /\ watched = {}
    /\ pc = "serving"
    /\ trace = <<>>
    /\ lastOp = Op("none", Root, FALSE)
    /\ prev = [src |-> EmptyTree, tgt |-> tgt, watched |-> {}]
    /\ lastReq = NoReq
    /\ reply = NoReply
    /\ writes = 0
    /\ repeated = FALSE
    /\ stack = <<>>
    /\ events = <<>>

Serve(req) ==
    LET r == handle_request(tgt, req)
    IN  /\ pc = "serving"
        /\ Cardinality(Nodes(r.fs)) <= MaxTgtNodes
        /\ tgt' = r.fs
        /\ reply' = IF r.ok \/ ~strict THEN r.reply ELSE Raised
        /\ writes' = r.writes
        /\ lastReq' = req
        /\ repeated' = (req = lastReq)
        /\ prev' = [prev EXCEPT !.tgt = tgt]
        /\ pc' = "serving"
        /\ UNCHANGED <<src, watched, trace, lastOp, strict, stack, events>>

Makedir == \E p \in PathStrs : Serve(Request("makedir", p, None))

Writefile == \E p \in PathStrs, d \in Contents \cup {None} : Serve(Request("writefile", p, d))

Remove == \E p \in PathStrs : Serve(Request("remove", p, None))

GetDirStructure == \E p \in PathStrs \cup {<<>>} : Serve(Request("get_dir_structure", p, None))

Unknown == \E p \in PathStrs : Serve(Request("rename", p, None))

NextTarget == Makedir \/ Writefile \/ Remove \/ GetDirStructure \/ Unknown

SpecTarget == InitTarget /\ [][NextTarget]_vars

(***************************************************************************)
(* The initial population of the constructor, statement by statement, with *)
(* REMOVED notifications handled in the execution context of the watch     *)
(* mechanism.  stack holds the calls of sync_and_watch_directories that    *)
(* are in progress, innermost last; events holds the notifications         *)
(* delivered and not yet handled, the first one being the one in hand.     *)
(* A request is sent and applied in one step (the channel is synchronous), *)
(* and the code holds no lock, so the steps of the two contexts interleave *)
(* freely.                                                                 *)
(***************************************************************************)
Frame(dir, stage, items, content) ==
    [content |-> content, dir |-> dir, items |-> items, stage |-> stage]

\* the replicator's state as a step finds it
Current == [ok |-> TRUE, tgt |-> tgt, trace |-> trace, watched |-> watched, writes |-> writes]

\* the innermost call of sync_and_watch_directories in progress
Top == stack[Len(stack)]

\* the stack with its innermost call replaced
WithTop(f) == [stack EXCEPT ![Len(stack)] = f]

\* what one step of the populating thread leaves: st is the record it ended
\* with, new_stack the calls still in progress; an exception ends the thread
Step(st, new_stack) ==
    /\ tgt' = st.tgt
    /\ watched' = st.watched
    /\ trace' = st.trace
    /\ writes' = st.writes
    /\ stack' = IF st.ok THEN new_stack ELSE <<>>
    /\ pc' = IF ~st.ok THEN "aborted" ELSE IF new_stack = <<>> THEN "watching" ELSE "populating"
    /\ UNCHANGED <<src, events, lastOp, prev, strict, lastReq, reply, repeated>>

\* __init__ after initialize_target() on an empty target directory:
\* sync_and_watch_directories(self._dir_path) is about to run
InitConc ==
    /\ src \in SrcTrees
    /\ strict \in BOOLEAN
    /\ tgt = initialize_target(Start(EmptyTree, {}), src).tgt
    /\ watched = {}
    /\ pc = "populating"
    /\ trace = <<>>
    /\ lastOp = Op("initialize_target", Root, FALSE)
    /\ prev = [src |-> src, tgt |-> EmptyTree, watched |-> {}]
    /\ lastReq = NoReq
    /\ reply = NoReply
    /\ writes = 0
    /\ repeated = FALSE
    /\ stack = <<Frame(Root, "watch", <<>>, None)>>
    /\ events = <<>>

\* self._fs.watchdir(src_dir, self.handle_event); self._watched_dirs.add(src_dir)
WatchDir ==
    /\ stack # <<>>
    /\ Top.stage = "watch"
    /\ IF isdir(src, Top.dir) \/ ~strict
       THEN Step(watch(Current, Top.dir), WithTop([Top EXCEPT !.stage = "makedir"]))
       ELSE Step(Raise(Current), stack)

\* if relative_path != ".": self._rpc_handle(Request('makedir', relative_path))
SendMakedir ==
    /\ stack # <<>>
    /\ Top.stage = "makedir"
    /\ Step(IF Top.dir # Root
            THEN rpc_handle(Current, Request("makedir", relpath(Top.dir), None))
            ELSE Current,
            WithTop([Top EXCEPT !.stage = "list"]))

\* self._fs.listdir(src_dir), evaluated once at the head of the loop
ListDir ==
    /\ stack # <<>>
    /\ Top.stage = "list"
    /\ IF isdir(src, Top.dir) \/ ~strict
       THEN Step(Current, WithTop([Top EXCEPT !.stage = "item", !.items = listdir(src, Top.dir)]))
       ELSE Step(Raise(Current), stack)

\* if self._fs.isdir(src_path), for the next item of the list
TestItem ==
    /\ stack # <<>>
    /\ Top.stage = "item"
    /\ Top.items # <<>>
    /\ Step(Current,
            WithTop([Top EXCEPT !.stage = IF isdir(src, join(Top.dir, Head(Top.items)))
                                          THEN "mkchild" ELSE "read"]))

\* the loop is exhausted: the call returns
Return ==
    /\ stack # <<>>
    /\ Top.stage = "item"
    /\ Top.items = <<>>
    /\ Step(Current, SubSeq(stack, 1, Len(stack) - 1))

\* self._rpc_handle(Request('makedir', relative_path)); self.sync_and_watch_directories(src_path)
MakeChild ==
    /\ stack # <<>>
    /\ Top.stage = "mkchild"
    /\ LET src_path == join(Top.dir, Head(Top.items))
       IN  Step(rpc_handle(Current, Request("makedir", relpath(src_path), None)),
                Append(WithTop([Top EXCEPT !.stage = "item", !.items = Tail(@)]),
                       Frame(src_path, "watch", <<>>, None)))

\* content = self._fs.readfile(src_path)
ReadFile ==
    /\ stack # <<>>
    /\ Top.stage = "read"
    /\ LET src_path == join(Top.dir, Head(Top.items))
       IN  IF exists(src, src_path)
           THEN Step(Current, WithTop([Top EXCEPT !.stage = "write",
                                                  !.content = readfile(src, src_path)]))
           ELSE Step(Raise(Current), stack)

\* self._rpc_handle(Request('writefile', relative_path, content))
WriteFile ==
    /\ stack # <<>>
    /\ Top.stage = "write"
    /\ LET src_path == join(Top.dir, Head(Top.items))
       IN  Step(rpc_handle(Current, Request("writefile", relpath(src_path), Top.content)),
                WithTop([Top EXCEPT !.stage = "item", !.items = Tail(@), !.content = None]))

\* an entry of the source is removed; its parent's watch, if registered,
\* delivers FILE_OR_SUBDIR_REMOVED
SourceRemoved(p) ==
    /\ exists(src, p)
    /\ src' = IF isdir(src, p) THEN fs_removedir(src, p) ELSE fs_removefile(src, p)
    /\ events' = IF Parent(p) \in watched
                 THEN Append(events, [path |-> p, stage |-> "delivered"])
                 ELSE events
    /\ UNCHANGED <<tgt, watched, pc, trace, lastOp, prev, strict, lastReq, reply, writes,
                   repeated, stack>>

\* what one step of the handler leaves
HandlerStep(st, new_events) ==
    /\ tgt' = st.tgt
    /\ watched' = st.watched
    /\ trace' = st.trace
    /\ writes' = st.writes
    /\ events' = new_events
    /\ UNCHANGED <<src, pc, stack, lastOp, prev, strict, lastReq, reply, repeated>>

\* handle_event, FILE_OR_SUBDIR_REMOVED: self.unwatch_prefix_directories(event.path)
HandleUnwatch ==
    /\ events # <<>>
    /\ events[1].stage = "delivered"
    /\ HandlerStep(unwatch_prefix_directories(Current, events[1].path),
                   [events EXCEPT ![1].stage = "unwatched"])

\* handle_event, FILE_OR_SUBDIR_REMOVED: self._rpc_handle(Request('remove', relative_path))
HandleRemove ==
    /\ events # <<>>
    /\ events[1].stage = "unwatched"
    /\ HandlerStep([rpc_handle(Current, Request("remove", relpath(events[1].path), None))
                       EXCEPT !.ok = TRUE],
                   Tail(events))

NextConc ==
    \/ WatchDir
    \/ SendMakedir
    \/ ListDir
    \/ TestItem
    \/ Return
    \/ MakeChild
    \/ ReadFile
    \/ WriteFile
    \/ \E p \in RelPaths : SourceRemoved(p)
    \/ HandleUnwatch
    \/ HandleRemove

SpecConc == InitConc /\ [][NextConc]_vars

TypeOK ==
    /\ WellFormed(src)
    /\ WellFormed(tgt)
    /\ watched \subseteq Paths
    /\ writes \in Nat

(***************************************************************************)
(* Claims                                                                  *)
(***************************************************************************)
\* the recursive snapshot of a tree, as get_dir_structure of its root returns it
Snapshot(fs) == get_dir_structure(fs, Root)

MutationCommands == {"makedir", "writefile", "remove"}

\* the requests of the last operation, in the order they were sent
Sent == SelectSeq(trace, LAMBDA e : e.command \in MutationCommands)

\* C1: once initialize_target has run and its commands are applied, the
\* snapshot of the target equals the source tree, whatever the two trees were.
C1_SnapshotEquivalence ==
    (pc = "initialized" /\ lastOp.kind = "initialize_target") => Snapshot(tgt) = Snapshot(src)

\* C2: a second run of initialize_target, with the first run's commands applied
\* and the source unchanged, sends no makedir, writefile or remove.
C2_IdempotentConvergence ==
    [][(pc = "initialized" /\ pc' = "initialized") => Sent' = <<>>]_vars

\* C3: after startup and any sequence of source changes, each notified and
\* handled to completion, the target tree equals the source tree.
C3_LiveConvergence ==
    pc = "watching" => Snapshot(tgt) = Snapshot(src)

\* the directories that exist under the replication root, the root included
SourceDirs == {d \in Paths : isdir(src, d)}

\* C4: after construction and after every handled notification, _watched_dirs
\* is exactly the set of directories that exist under the root.
C4_WatchedSetInvariant ==
    pc = "watching" => watched = SourceDirs

\* the positions of the calls of a command in the last operation
Calls(command) == {i \in DOMAIN trace : trace[i].command = command}

\* the last operation handled a REMOVED notification for a directory
RemovedDirHandled ==
    lastOp.kind = "REMOVED" /\ lastOp.notified /\ isdir(prev.src, lastOp.path)

\* C5: handling REMOVED for a directory P unregisters every watched directory
\* at or under P before the remove is sent, and sends exactly one remove, for P.
C5_WatchTeardown ==
    RemovedDirHandled =>
        /\ Sent = <<Request("remove", relpath(lastOp.path), None)>>
        /\ \A d \in prev.watched :
               IsPrefix(lastOp.path, d) =>
                   /\ d \notin watched
                   /\ \E j \in Calls("unwatchdir") :
                          /\ trace[j].path = abspath(d)
                          /\ \A i \in Calls("remove") : j < i

C5_Witness ==
    /\ RemovedDirHandled
    /\ \E d \in prev.watched : IsPrefix(lastOp.path, d) /\ d # lastOp.path

\* C6 as stated: every handled notification sends exactly one mutation command.
C6_ExactlyOneCommand ==
    (lastOp.notified /\ pc = "watching") => Len(Sent) = 1

\* the entries of the source tree at or under p
Under(p) == {q \in Paths : IsPrefix(p, q) /\ exists(src, q)}

\* C6 amended: a notification for an added file, a removed entry or a modified
\* file sends exactly one command; one for an added subdirectory P sends the
\* population of P and then makedir(P): two makedirs for each directory at or
\* under P and one writefile for each file under P.
C6_CommandsPerEvent ==
    (lastOp.notified /\ pc = "watching") =>
        IF lastOp.kind = "ADDED" /\ isdir(src, lastOp.path)
        THEN /\ Len(Sent) = 2 * Cardinality({q \in Under(lastOp.path) : isdir(src, q)})
                            + Cardinality({q \in Under(lastOp.path) : ~isdir(src, q)})
             /\ Sent[1] = Request("makedir", relpath(lastOp.path), None)
             /\ Sent[Len(Sent)] = Request("makedir", relpath(lastOp.path), None)
        ELSE /\ Len(Sent) = 1
             /\ Sent[1].path = relpath(lastOp.path)
             /\ Sent[1].command = IF lastOp.kind = "REMOVED" THEN "remove" ELSE "writefile"

C6_Witness ==
    /\ lastOp.notified
    /\ pc = "watching"
    /\ lastOp.kind = "ADDED"
    /\ isdir(src, lastOp.path)
    /\ Len(Sent) > 2

\* the path of the last request, as components below the target root
ReqPath == full_path(lastReq.path)

\* the last request was writefile(P, content) on a directory P
WroteOverDir ==
    /\ lastReq.command = "writefile"
    /\ lastReq.data # None
    /\ isdir(prev.tgt, ReqPath)

\* C7: writefile(P, content) on a directory P leaves a regular file P holding
\* content, and nothing of what was under the directory.
C7_TypeChange ==
    WroteOverDir =>
        /\ tgt[ReqPath] = File(lastReq.data)
        /\ \A q \in Paths : (IsPrefix(ReqPath, q) /\ q # ReqPath) => ~exists(tgt, q)

C7_Witness ==
    /\ WroteOverDir
    /\ \E q \in Paths : IsPrefix(ReqPath, q) /\ q # ReqPath /\ exists(prev.tgt, q)

\* the last request was a writefile carrying content
WroteContent == lastReq.command = "writefile" /\ lastReq.data # None

\* C8: writefile(P, content) on a file P that holds content makes no
\* fs.writefile call and leaves the tree as it was; on a file with another
\* content, or an absent P, it makes exactly one call.
C8_NoOpWrite ==
    WroteContent =>
        /\ prev.tgt[ReqPath] = File(lastReq.data) => (writes = 0 /\ tgt = prev.tgt)
        /\ (prev.tgt[ReqPath].kind # "dir" /\ prev.tgt[ReqPath] # File(lastReq.data))
               => writes = 1

C8_Witness ==
    WroteContent /\ prev.tgt[ReqPath] = File(lastReq.data) /\ writes = 0

\* C9: a mutation command applied a second time in a row leaves the tree as
\* the first application left it; makedir on a directory and remove on an
\* absent path change nothing and raise nothing.
C9_IdempotentApplication ==
    /\ (repeated /\ lastReq.command \in MutationCommands) => tgt = prev.tgt
    /\ (lastReq.command = "makedir" /\ isdir(prev.tgt, ReqPath))
           => (tgt = prev.tgt /\ reply # Raised)
    /\ (lastReq.command = "remove" /\ ~exists(prev.tgt, ReqPath))
           => (tgt = prev.tgt /\ reply # Raised)

C9_Witness ==
    /\ repeated
    /\ lastReq.command = "writefile"
    /\ lastReq.data # None
    /\ tgt[ReqPath] = File(lastReq.data)

\* C10: a request with an unknown command is answered with status "error"
\* and leaves the target tree unchanged.
C10_UnknownCommand ==
    (lastReq.command \notin MutationCommands \cup {"get_dir_structure", "none"})
        => (reply.status = "error" /\ tgt = prev.tgt)

\* the last operation was a run of initialize_target
Reconciled == lastOp.kind = "initialize_target"

\* the positions in the last operation of makedir or writefile for an entry under d
CallsUnder(d) ==
    {i \in DOMAIN trace :
        /\ trace[i].command \in {"makedir", "writefile"}
        /\ \E q \in RelPaths : IsPrefix(d, q) /\ q # d /\ trace[i].path = relpath(q)}

\* C11: in the commands of initialize_target, makedir(D) of a source directory D
\* that is no directory at the target precedes every makedir or writefile for
\* an entry under D.
C11_MakedirBeforeEntries ==
    Reconciled =>
        \A d \in RelPaths :
            (isdir(src, d) /\ ~isdir(prev.tgt, d)) =>
                \A i \in CallsUnder(d) :
                    \E j \in Calls("makedir") : j < i /\ trace[j].path = relpath(d)

RECURSIVE Lookup(_, _)
\* the object a snapshot holds for the components p: "absent" when there is none
Lookup(d, p) ==
    IF ~d.isdict \/ Head(p) \notin DOMAIN d.map THEN [found |-> FALSE, obj |-> EmptyDict]
    ELSE IF Len(p) = 1 THEN [found |-> TRUE, obj |-> d.map[Head(p)]]
    ELSE Lookup(d.map[Head(p)], Tail(p))

\* the snapshot d describes the tree fs, entry by entry
Describes(d, fs) ==
    /\ d.isdict
    /\ \A p \in RelPaths :
           LET l == Lookup(d, p)
           IN  CASE fs[p].kind = "none" -> ~l.found
                 [] fs[p].kind = "dir" -> l.found /\ l.obj.isdict
                 [] fs[p].kind = "file" ->
                        l.found /\ ~l.obj.isdict /\ l.obj.str = fs[p].data

\* C12: get_dir_structure, whatever its path field, is answered ok with the
\* recursive snapshot of the target root as it is now, and changes nothing.
C12_GetDirStructure ==
    lastReq.command = "get_dir_structure" =>
        /\ reply.status = "ok"
        /\ Describes(reply.data, tgt)
        /\ tgt = prev.tgt

C12_Witness ==
    /\ lastReq.command = "get_dir_structure"
    /\ lastReq.path # <<>>
    /\ \E p \in RelPaths : Len(p) > 1 /\ exists(tgt, p)

\* a request of the last operation
WasSent(command, p) == \E i \in DOMAIN trace : trace[i].command = command /\ trace[i].path = relpath(p)

\* C13: initialize_target sends writefile for a source file exactly when the
\* target lacks it or holds other content, and remove+makedir for a source
\* directory exactly when the target lacks it; a matching entry costs nothing.
C13_Minimality ==
    (Reconciled /\ pc = "initialized") =>
        \A p \in RelPaths :
            /\ (exists(src, p) /\ ~isdir(src, p)) =>
                   (WasSent("writefile", p) <=> prev.tgt[p] # src[p])
            /\ isdir(src, p) =>
                   /\ WasSent("makedir", p) <=> ~exists(prev.tgt, p)
                   /\ WasSent("makedir", p) <=> WasSent("remove", p)

\* C14: where the source has a directory P and the target snapshot a regular
\* file, initialize_target sends remove(P), then makedir(P), before any
\* command for an entry under P, and raises nothing.
C14_TypeConflict ==
    Reconciled =>
        \A p \in RelPaths :
            (isdir(src, p) /\ prev.tgt[p].kind = "file") =>
                /\ pc # "aborted"
                /\ \E i \in Calls("remove") :
                       /\ trace[i].path = relpath(p)
                       /\ i + 1 \in Calls("makedir")
                       /\ trace[i + 1].path = relpath(p)
                       /\ \A j \in CallsUnder(p) : i + 1 < j

\* the requests remove_excess_items sent in the last run of initialize_target:
\* those that follow the requests of sync_target_with_source
ExcessSent ==
    LET s0 == Start(prev.tgt, prev.watched)
        synced == sync_target_with_source(s0, src, Root, Snapshot(prev.tgt))
    IN  SubSeq(trace, Len(synced.trace) + 2, Len(trace))

\* the entries of the target snapshot that the source lacks while it has all
\* that lies above them
TopmostExcess ==
    {p \in RelPaths :
        /\ exists(prev.tgt, p)
        /\ ~exists(src, p)
        /\ \A k \in 1..(Len(p) - 1) : exists(src, SubSeq(p, 1, k))}

\* C15: remove_excess_items sends one remove for each topmost entry of the
\* target snapshot that the source lacks, and no other request.
C15_ExcessRemoval ==
    (Reconciled /\ pc = "initialized") =>
        /\ Len(ExcessSent) = Cardinality(TopmostExcess)
        /\ \A i \in DOMAIN ExcessSent :
               /\ ExcessSent[i].command = "remove"
               /\ \E p \in TopmostExcess : ExcessSent[i].path = relpath(p)
        /\ \A p \in TopmostExcess :
               \E i \in DOMAIN ExcessSent : ExcessSent[i].path = relpath(p)

C15_Witness ==
    /\ Reconciled
    /\ pc = "initialized"
    /\ \E p \in TopmostExcess : \E q \in RelPaths : IsPrefix(p, q) /\ q # p /\ exists(prev.tgt, q)

\* the last operation handled an ADDED notification for a directory
AddedDirHandled ==
    lastOp.kind = "ADDED" /\ lastOp.notified /\ isdir(src, lastOp.path) /\ pc = "watching"

\* C16: handling ADDED for a directory P sends makedir(P) first, before every
\* makedir or writefile for an entry under P, and leaves P and every
\* directory under it in _watched_dirs, each registered with watchdir.
C16_DirectoryAdded ==
    AddedDirHandled =>
        /\ Sent[1] = Request("makedir", relpath(lastOp.path), None)
        /\ \A i \in CallsUnder(lastOp.path) :
               \E j \in Calls("makedir") : j < i /\ trace[j].path = relpath(lastOp.path)
        /\ \A d \in Paths :
               (IsPrefix(lastOp.path, d) /\ isdir(src, d)) =>
                   /\ d \in watched
                   /\ \E i \in Calls("watchdir") : trace[i].path = abspath(d)

C16_Witness ==
    /\ AddedDirHandled
    /\ \E d \in Paths : IsPrefix(lastOp.path, d) /\ d # lastOp.path /\ d \in watched

\* C17: handling REMOVED for P unregisters no watched directory that is
\* neither P nor below P.
C17_UnwatchBySegment ==
    (lastOp.kind = "REMOVED" /\ lastOp.notified) =>
        \A d \in prev.watched : ~IsPrefix(lastOp.path, d) => d \in watched

\* the last operation was sync_and_watch_directories(root) on a target that
\* mirrored the source
PopulatedMirror == lastOp.kind = "sync_and_watch_directories" /\ prev.tgt = src

\* C19: on a target that mirrors the source, sync_and_watch_directories(root)
\* watches every directory, sends makedir for every directory but the root
\* and writefile for every file, and applying them changes nothing at the
\* target and writes no file.
C19_InitialPopulation ==
    PopulatedMirror =>
        /\ pc = "watching"
        /\ watched = SourceDirs
        /\ \A d \in SourceDirs : \E i \in Calls("watchdir") : trace[i].path = abspath(d)
        /\ \A i \in Calls("makedir") : trace[i].path \in PathStrs
        /\ \A p \in RelPaths :
               /\ isdir(src, p) => WasSent("makedir", p)
               /\ (exists(src, p) /\ ~isdir(src, p)) =>
                      \E i \in Calls("writefile") :
                          trace[i] = Request("writefile", relpath(p), readfile(src, p))
        /\ tgt = prev.tgt
        /\ writes = 0

C19_Witness ==
    /\ PopulatedMirror
    /\ \E p \in RelPaths : Len(p) > 1 /\ exists(src, p) /\ ~isdir(src, p)

\* a path that the last request may change: its own path P, what lies under
\* P, and the ancestors of P that did not exist
Touched(q) ==
    \/ IsPrefix(ReqPath, q)
    \/ IsPrefix(q, ReqPath) /\ ~exists(prev.tgt, q)

\* C20: makedir, writefile and remove of P change only P, what lies under P
\* and, by creating them as directories, the missing ancestors of P; a
\* writefile without data changes nothing.
C20_TargetFrame ==
    lastReq.command \in MutationCommands =>
        /\ \A q \in Paths :
               /\ ~Touched(q) => tgt[q] = prev.tgt[q]
               /\ (Touched(q) /\ q # ReqPath /\ IsPrefix(q, ReqPath) /\ tgt[q] # prev.tgt[q])
                      => tgt[q] = DIR
        /\ (lastReq.command = "writefile" /\ lastReq.data = None) => tgt = prev.tgt

C20_Witness ==
    /\ lastReq.command = "remove"
    /\ tgt # prev.tgt
    /\ isdir(prev.tgt, ReqPath)
    /\ \E q \in RelPaths : ~Touched(q) /\ exists(tgt, q)

\* a call of sync_and_watch_directories for P or for a directory under P is
\* in progress
Populating(P) == \E i \in DOMAIN stack : IsPrefix(P, stack[i].dir)

\* the handler has begun and not finished a REMOVED notification
Removing == events # <<>> /\ events[1].stage = "unwatched"

\* both contexts have finished
Quiescent == stack = <<>> /\ events = <<>>

\* C18: a REMOVED notification for P is not processed while P or a directory
\* under P is being populated; once both have finished, no directory at or
\* under a removed P is in _watched_dirs and no makedir or writefile for a
\* path under P follows remove(P).
C18_RemovalExcludesPopulation ==
    /\ Removing => ~Populating(events[1].path)
    /\ Quiescent =>
           \A P \in RelPaths : \A i \in Calls("remove") :
               trace[i].path = relpath(P) =>
                   /\ \A d \in watched : ~IsPrefix(P, d)
                   /\ \A j \in CallsUnder(P) : j < i

====
